---------------------------- MODULE Spec2Model ----------------------------
(***************************************************************************)
(* Model of src/src/user.js: the user facade of an Active-Directory        *)
(* client.  The facade keeps a per-username lookup cache, delegates reads  *)
(* and writes to a directory client and chains its steps with promises.    *)
(*                                                                         *)
(* Execution model.  JavaScript is single threaded: a call's synchronous   *)
(* part and every promise reaction (.then/.catch handler, code after an    *)
(* await) run to completion, and all pending reactions run before the      *)
(* next I/O callback or the next call of the application.  Each call of    *)
(* the facade is a process with a stack of frames (one frame per facade    *)
(* function being executed).  A frame whose process has no directory       *)
(* request outstanding is runnable; calls of the application, the          *)
(* directory and the I/O callbacks act only when no frame is runnable.     *)
(* The directory serves a request at some moment between the request and   *)
(* its callback; callbacks of different calls arrive in any order.         *)
(***************************************************************************)
EXTENDS Integers, Sequences, FiniteSets, TLC

VARIABLES
  dir,      \* the directory: the set of user entries it holds
  cache,    \* this._cache.users: key -> cached record (domain = keys present)
  procs     \* the calls of the facade made so far, in the order they were made

vars == <<dir, cache, procs>>

----------------------------------------------------------------------------
(* Bounds of the model *)

\* calls of the facade made in one behaviour
MaxCalls == 2

----------------------------------------------------------------------------
(* Strings.  A user name is a sequence of tokens: <<"u1">> is the bare     *)
(* form, <<"u1", "@", "corp">> the user@domain form.                       *)

\* this.config.domain
Domain == "corp"

\* this.config.baseDN, as a list of RDNs
BaseDN == <<[t |-> "dc", v |-> "corp"], [t |-> "dc", v |-> "com"]>>

\* account names the model draws from
Accounts == {"u1", "u2"}

Bare(n) == <<n>>
Full(n) == <<n, "@", Domain>>

\* userName.indexOf('@') > -1
HasAt(s) == \E i \in 1..Len(s) : s[i] = "@"

\* userName.split('@')[0]
BeforeAt(s) ==
  LET i == CHOOSE j \in 1..Len(s) : s[j] = "@" /\ \A k \in 1..(j-1) : s[k] # "@"
  IN  SubSeq(s, 1, i - 1)

\* userName.indexOf('@') > -1 ? userName.split('@')[0] : userName
StripDomain(s) == IF HasAt(s) THEN BeforeAt(s) ELSE s

----------------------------------------------------------------------------
(* Records.  A user record is a function from attribute names to values;   *)
(* the empty record {} is the function with the empty domain.              *)

EmptyRecord == [k \in {} |-> 0]

\* the DN of an absent attribute: String(undefined).split(',')
UndefinedDN == <<[t |-> "undefined", v |-> ""]>>

\* userObject.dn
DnOf(r) == IF "dn" \in DOMAIN r THEN r.dn ELSE UndefinedDN

\* userObject.cn inside a template string
CnOf(r) == IF "cn" \in DOMAIN r THEN r.cn ELSE "undefined"

\* Object.keys(userObject).length < 1
NoKeys(r) == DOMAIN r = {}

\* {...r, [key]: value}
WithAttr(r, key, value) ==
  [k \in (DOMAIN r) \cup {key} |-> IF k = key THEN value ELSE r[k]]


----------------------------------------------------------------------------
(* Collaborators that are not part of user.js: the result shaper, the      *)
(* location parser, the cache object and the directory.                    *)

\* findUser's opts: undefined, or a field selection
NoOpts == [shaped |-> FALSE, fields |-> {}]
OnlyDn == [shaped |-> TRUE, fields |-> {"dn"}]
OptsChoices == {NoOpts, OnlyDn}

\* api.processResults(opts, [r])[0]: the record with the selected fields
processResults(opts, r) ==
  IF opts.shaped THEN [k \in (DOMAIN r) \cap opts.fields |-> r[k]] ELSE r

\* parseLocation('A/B'): the OU chain, innermost first, as RDNs
RECURSIVE parseLocation(_)
parseLocation(path) ==
  IF path = <<>> THEN <<>>
  ELSE parseLocation(Tail(path)) \o <<[t |-> "OU", v |-> Head(path)]>>

\* this._cache.get('users', key) is truthy
CacheHas(c, key) == key \in DOMAIN c

\* this._cache.set('users', key, value)
CacheSet(c, key, value) ==
  [k \in (DOMAIN c) \cup {key} |-> IF k = key THEN value ELSE c[k]]

\* what the directory answers when nothing went wrong
NoError == EmptyRecord
TransportError == [message |-> "ECONNRESET"]
EntryExists == [message |-> "ENTRY_EXISTS"]
NoSuchObject == [message |-> "NO_SUCH_OBJECT"]

\* an authentication-level error of the directory: it carries lde_message
AuthError ==
  [message |-> "InvalidCredentialsError", lde_message |-> "data 52e",
   stack |-> <<"InvalidCredentialsError", "Invalid Credentials">>]

\* JavaScript values the directory may hand to the callback of authenticate
Undefined == [type |-> "undefined"]
Boolean(b) == [type |-> "boolean", value |-> b]
Object(fields) == [type |-> "object", fields |-> fields]
AuthResults == {Undefined, Boolean(FALSE), Boolean(TRUE), Object(EmptyRecord)}

\* the entries matching (|(userPrincipalName=key@domain)(sAMAccountName=key))
Matches(d, key) ==
  {e \in d : \/ <<e.sAMAccountName>> = key
             \/ /\ "userPrincipalName" \in DOMAIN e
                /\ e.userPrincipalName = key \o <<"@", Domain>>}

\* the directory's answers to a request: a set of <<err, res, dir'>>
Answers(d, req) ==
  {<<TransportError, EmptyRecord, d>>} \cup
  CASE req.kind = "find" ->
         IF Matches(d, req.key) = {}
         THEN {<<NoError, EmptyRecord, d>>}
         ELSE {<<NoError, e, d>> : e \in Matches(d, req.key)}
    [] req.kind = "modifyDN" ->
         LET old == {e \in d : e.dn = req.dn}
             clash == {e \in d : e.dn = req.newDN}
         IN  IF old = {} THEN {<<NoSuchObject, EmptyRecord, d>>}
             ELSE IF clash # {} THEN {<<EntryExists, EmptyRecord, d>>}
             ELSE {<<NoError, [success |-> TRUE],
                     (d \ old) \cup
                       {[e EXCEPT !.dn = req.newDN, !.cn = req.newDN[1].v]
                          : e \in old}>>}
    [] req.kind = "replace" ->
         LET old == {e \in d : e.dn = req.dn}
         IN  IF old = {} THEN {<<NoSuchObject, EmptyRecord, d>>}
             ELSE {<<NoError, [success |-> TRUE],
                     (d \ old) \cup {WithAttr(e, req.key, req.value) : e \in old}>>}
    [] req.kind = "add" ->
         IF \E e \in d : e.dn = req.dn \/ e.sAMAccountName = req.entry.sAMAccountName
         THEN {<<EntryExists, EmptyRecord, d>>}
         ELSE {<<NoError, [success |-> TRUE], d \cup {req.entry}>>}
    [] req.kind = "delete" ->
         LET old == {e \in d : e.dn = req.dn}
         IN  IF old = {} THEN {<<NoSuchObject, EmptyRecord, d>>}
             ELSE {<<NoError, [success |-> TRUE], d \ old>>}
    [] req.kind = "authenticate" ->
         {<<e, r, d>> : e \in {NoError, AuthError}, r \in AuthResults}


----------------------------------------------------------------------------
(* Processes.  procs[p] is the p-th call of the facade:                    *)
(*   op, arg   the public operation called and its arguments               *)
(*   stack     the frames of the facade functions it is executing          *)
(*   io        its outstanding directory request ("none", "sent", "done")  *)
(*   ret       how the function it called last settled                     *)
(*   outcome   the state of the promise returned to the application        *)
(*   value     what that promise settled with                              *)
(*   log       the directory-client calls it issued, in order: the request,*)
(*             the functions that were executing, the directory's answer   *)
(*   after     the calls that had ended when this one was made             *)

NoIO == [phase |-> "none"]
NoRet == [set |-> FALSE]
Unanswered == [pending |-> TRUE]

NewProc(op, arg, frame, after) ==
  [op |-> op, arg |-> arg, stack |-> <<frame>>, io |-> NoIO, ret |-> NoRet,
   outcome |-> "pending", value |-> EmptyRecord, log |-> <<>>,
   after |-> after]

Top(pr) == pr.stack[Len(pr.stack)]

\* the running function continues at frame f
Goto(pr, f) == [pr EXCEPT !.stack[Len(pr.stack)] = f, !.ret = NoRet]

\* the running function calls another facade function and continues at f
\* when the promise of that call settles
Invoke(pr, f, callee) ==
  [pr EXCEPT !.stack = SubSeq(pr.stack, 1, Len(pr.stack) - 1) \o <<f, callee>>,
             !.ret = NoRet]

\* resolve(val) / reject(val) of the promise returned to the application:
\* only the first settlement of a promise counts
Settle(pr, ok, val) ==
  IF pr.outcome = "pending"
  THEN [pr EXCEPT !.outcome = IF ok THEN "resolved" ELSE "rejected",
                  !.value = val]
  ELSE pr

\* the running function settles its promise and ends
Return(pr, ok, val) ==
  LET rest == SubSeq(pr.stack, 1, Len(pr.stack) - 1)
      popped == [pr EXCEPT !.stack = rest, !.ret = NoRet]
  IN  IF rest = <<>> THEN Settle(popped, ok, val)
      ELSE [popped EXCEPT !.ret = [set |-> TRUE, ok |-> ok, val |-> val]]

\* the running function ends without settling its promise
Abandon(pr) ==
  [pr EXCEPT !.stack = SubSeq(pr.stack, 1, Len(pr.stack) - 1), !.ret = NoRet]

\* the running function calls the directory client and continues at f in
\* the callback
Send(pr, f, req) ==
  [pr EXCEPT !.stack[Len(pr.stack)] = f, !.ret = NoRet,
             !.io = [phase |-> "sent", req |-> req],
             !.log = Append(pr.log,
                            [req |-> req,
                             via |-> [i \in 1..Len(pr.stack) |->
                                        <<pr.stack[i].fn, pr.stack[i].pc>>],
                             err |-> Unanswered, res |-> Unanswered])]

\* the callback has consumed the directory's answer
Received(pr) == [pr EXCEPT !.io = NoIO]

Runnable(pr) == pr.stack # <<>> /\ pr.io.phase = "none"
AnyRunnable == \E p \in DOMAIN procs : Runnable(procs[p])
InFlight(pr) == pr.stack # <<>>

\* process p is about to run the reaction at pc of function fn
At(p, fn, pc) ==
  /\ p \in DOMAIN procs
  /\ Runnable(procs[p])
  /\ Top(procs[p]).fn = fn
  /\ Top(procs[p]).pc = pc

\* the directory has answered process p, which waits at pc of function fn
AtCallback(p, fn, pc) ==
  /\ p \in DOMAIN procs
  /\ ~AnyRunnable
  /\ procs[p].stack # <<>>
  /\ procs[p].io.phase = "done"
  /\ Top(procs[p]).fn = fn
  /\ Top(procs[p]).pc = pc

Failed(io) == ~NoKeys(io.err)

----------------------------------------------------------------------------
(* The directory serves the request of some process. *)

Serve(p) ==
  /\ p \in DOMAIN procs
  /\ ~AnyRunnable
  /\ procs[p].io.phase = "sent"
  /\ \E a \in Answers(dir, procs[p].io.req) :
       /\ dir' = a[3]
       /\ procs' = [procs EXCEPT
                      ![p].io = [phase |-> "done", err |-> a[1], res |-> a[2]],
                      ![p].log[Len(procs[p].log)].err = a[1],
                      ![p].log[Len(procs[p].log)].res = a[2]]
  /\ UNCHANGED cache

----------------------------------------------------------------------------
(* findUser(userName, opts) *)

FindUserFrame(userName, opts) ==
  [fn |-> "findUser", pc |-> "start", userName |-> userName, opts |-> opts]

\* the key findUser looks up in the cache
FindUserCacheKey(userName) == userName

\* the synchronous part: cache lookup, else the directory query
FindUserStart(p) ==
  /\ At(p, "findUser", "start")
  /\ LET pr == procs[p]
         f == Top(pr)
         key == FindUserCacheKey(f.userName)
     IN  IF CacheHas(cache, key)
         THEN procs' = [procs EXCEPT ![p] =
                          Return(pr, TRUE, processResults(f.opts, cache[key]))]
         ELSE procs' = [procs EXCEPT ![p] =
                          Send(pr, [f EXCEPT !.pc = "found",
                                             !.userName = StripDomain(f.userName)],
                               [kind |-> "find", key |-> StripDomain(f.userName)])]
  /\ UNCHANGED <<dir, cache>>

\* a failed find is taken for "no such user" and the sentinel is cached
FindUserCallbackCachesFailure(p) ==
  /\ AtCallback(p, "findUser", "found")
  /\ LET pr == Received(procs[p])
         f == Top(pr)
         io == procs[p].io
     IN  IF Failed(io) \/ NoKeys(io.res)
         THEN /\ cache' = CacheSet(cache, f.userName, EmptyRecord)
              /\ procs' = [procs EXCEPT ![p] =
                             IF Failed(io) THEN Return(pr, FALSE, io.err)
                             ELSE Return(pr, TRUE, EmptyRecord)]
         ELSE /\ cache' = CacheSet(cache, f.userName, io.res)
              /\ procs' = [procs EXCEPT ![p] =
                             Return(pr, TRUE, processResults(f.opts, io.res))]
  /\ UNCHANGED dir

\* the callback of this.ad.find
FindUserCallback(p) ==
  /\ AtCallback(p, "findUser", "found")
  /\ LET pr == Received(procs[p])
         f == Top(pr)
         io == procs[p].io
     IN  IF Failed(io)
         THEN /\ procs' = [procs EXCEPT ![p] = Return(pr, FALSE, io.err)]
              /\ UNCHANGED cache
         ELSE IF NoKeys(io.res)
         THEN /\ cache' = CacheSet(cache, f.userName, EmptyRecord)
              /\ procs' = [procs EXCEPT ![p] = Return(pr, TRUE, EmptyRecord)]
         ELSE /\ cache' = CacheSet(cache, f.userName, io.res)
              /\ procs' = [procs EXCEPT ![p] =
                             Return(pr, TRUE, processResults(f.opts, io.res))]
  /\ UNCHANGED dir

----------------------------------------------------------------------------
(* The internal write helper and the single-attribute setters *)

\* delete this._cache.users[key]
CacheDelete(c, key) == [k \in (DOMAIN c) \ {key} |-> c[k]]

\* encodePassword(pass): the quoted password as the directory expects it
encodePassword(pass) == <<"\"", pass, "\"">>

NEVER_EXPIRES == 66048
UAC_ENABLED == 512
DISABLED == 514

RetFailed(pr) == pr.ret.set /\ ~pr.ret.ok

ReplaceFrame(userName, key, value) ==
  [fn |-> "_userReplaceOperation", pc |-> "start", userName |-> userName,
   key |-> key, value |-> value]

\* this._userReplaceOperation(userName, {key: value}): look the user up
UserReplaceStart(p) ==
  /\ At(p, "_userReplaceOperation", "start")
  /\ LET pr == procs[p]
         f == Top(pr)
         name == StripDomain(f.userName)
     IN  procs' = [procs EXCEPT ![p] =
                     Invoke(pr, [f EXCEPT !.pc = "found", !.userName = name],
                            FindUserFrame(name, NoOpts))]
  /\ UNCHANGED <<dir, cache>>

\* ... then replace the attribute of the entry found
UserReplaceFound(p) ==
  /\ At(p, "_userReplaceOperation", "found")
  /\ LET pr == procs[p]
         f == Top(pr)
     IN  procs' = [procs EXCEPT ![p] =
           IF RetFailed(pr) THEN Return(pr, FALSE, pr.ret.val)
           ELSE IF "dn" \notin DOMAIN pr.ret.val
           THEN Return(pr, FALSE, [message |-> "User does not exist."])
           ELSE Send(pr, [f EXCEPT !.pc = "replaced"],
                     [kind |-> "replace", dn |-> pr.ret.val.dn,
                      key |-> f.key, value |-> f.value])]
  /\ UNCHANGED <<dir, cache>>

\* ... and invalidate the user's cache entry once the write succeeded
UserReplaceCallback(p) ==
  /\ AtCallback(p, "_userReplaceOperation", "replaced")
  /\ LET pr == Received(procs[p])
         f == Top(pr)
         io == procs[p].io
     IN  IF Failed(io)
         THEN /\ procs' = [procs EXCEPT ![p] = Return(pr, FALSE, io.err)]
              /\ UNCHANGED cache
         ELSE /\ cache' = CacheDelete(cache, f.userName)
              /\ procs' = [procs EXCEPT ![p] = Return(pr, TRUE, [success |-> TRUE])]
  /\ UNCHANGED dir

setUserProperty(userName, key, value) == ReplaceFrame(userName, key, value)

setUserPasswordNeverExpires(userName) ==
  ReplaceFrame(userName, "userAccountControl", NEVER_EXPIRES)

enableUser(userName) == ReplaceFrame(userName, "userAccountControl", UAC_ENABLED)

disableUser(userName) == ReplaceFrame(userName, "userAccountControl", DISABLED)

SetUserPasswordFrame(userName, pass) ==
  [fn |-> "setUserPassword", pc |-> "start", userName |-> userName, pass |-> pass]

\* setUserPassword(userName, pass): refuse an empty password, else write it
SetUserPasswordStart(p) ==
  /\ At(p, "setUserPassword", "start")
  /\ LET pr == procs[p]
         f == Top(pr)
     IN  procs' = [procs EXCEPT ![p] =
           IF f.pass = ""
           THEN Return(pr, FALSE, [message |-> "No password provided."])
           ELSE Invoke(pr, [f EXCEPT !.pc = "done"],
                       ReplaceFrame(f.userName, "unicodePwd", encodePassword(f.pass)))]
  /\ UNCHANGED <<dir, cache>>

\* .then(resolve).catch(reject)
SetUserPasswordDone(p) ==
  /\ At(p, "setUserPassword", "done")
  /\ procs' = [procs EXCEPT ![p] = Return(@, procs[p].ret.ok, procs[p].ret.val)]
  /\ UNCHANGED <<dir, cache>>

----------------------------------------------------------------------------
(* setUserCN(userName, cn) *)

SetUserCNFrame(userName, cn) ==
  [fn |-> "setUserCN", pc |-> "start", userName |-> userName, cn |-> cn]

SetUserCNStart(p) ==
  /\ At(p, "setUserCN", "start")
  /\ LET pr == procs[p]
         f == Top(pr)
     IN  procs' = [procs EXCEPT ![p] =
                     Invoke(pr, [f EXCEPT !.pc = "found"],
                            FindUserFrame(f.userName, NoOpts))]
  /\ UNCHANGED <<dir, cache>>

\* the new DN: the old one with its first component replaced by CN=cn
SetUserCNFound(p) ==
  /\ At(p, "setUserCN", "found")
  /\ LET pr == procs[p]
         f == Top(pr)
         oldDN == DnOf(pr.ret.val)
         newDN == <<[t |-> "CN", v |-> f.cn]>> \o Tail(oldDN)
     IN  procs' = [procs EXCEPT ![p] =
           IF RetFailed(pr) THEN Return(pr, FALSE, pr.ret.val)
           ELSE Send(pr, [f EXCEPT !.pc = "renamed"],
                     [kind |-> "modifyDN", dn |-> oldDN, newDN |-> newDN])]
  /\ UNCHANGED <<dir, cache>>

\* the key setUserCN removes from the cache
SetUserCNCacheKey(userName) == userName

SetUserCNCallback(p) ==
  /\ AtCallback(p, "setUserCN", "renamed")
  /\ LET pr == Received(procs[p])
         f == Top(pr)
         io == procs[p].io
     IN  IF Failed(io)
         THEN /\ procs' = [procs EXCEPT ![p] = Return(pr, FALSE, io.err)]
              /\ UNCHANGED cache
         ELSE /\ cache' = CacheDelete(cache, SetUserCNCacheKey(f.userName))
              /\ procs' = [procs EXCEPT ![p] = Return(pr, TRUE, io.res)]
  /\ UNCHANGED dir

----------------------------------------------------------------------------
(* moveUser(userName, location) *)

MoveUserFrame(userName, location) ==
  [fn |-> "moveUser", pc |-> "start", userName |-> userName,
   location |-> location]

\* String(this.config.baseDN).replace(/dc=/g, 'DC=')
UpperDC(dn) ==
  [i \in 1..Len(dn) |-> IF dn[i].t = "dc" THEN [dn[i] EXCEPT !.t = "DC"] ELSE dn[i]]

MoveUserStart(p) ==
  /\ At(p, "moveUser", "start")
  /\ LET pr == procs[p]
         f == Top(pr)
     IN  procs' = [procs EXCEPT ![p] =
                     Invoke(pr, [f EXCEPT !.pc = "found",
                                          !.location = parseLocation(f.location)],
                            FindUserFrame(f.userName, NoOpts))]
  /\ UNCHANGED <<dir, cache>>

\* the new DN: CN=<cn>,<location><base DN>
MoveUserFound(p) ==
  /\ At(p, "moveUser", "found")
  /\ LET pr == procs[p]
         f == Top(pr)
         oldDN == DnOf(pr.ret.val)
         newDN == <<[t |-> "CN", v |-> CnOf(pr.ret.val)]>> \o f.location
                    \o UpperDC(BaseDN)
     IN  procs' = [procs EXCEPT ![p] =
           IF RetFailed(pr) THEN Return(pr, FALSE, pr.ret.val)
           ELSE Send(pr, [f EXCEPT !.pc = "renamed"],
                     [kind |-> "modifyDN", dn |-> oldDN, newDN |-> newDN])]
  /\ UNCHANGED <<dir, cache>>

MoveUserCallback(p) ==
  /\ AtCallback(p, "moveUser", "renamed")
  /\ LET pr == Received(procs[p])
         f == Top(pr)
         io == procs[p].io
     IN  IF Failed(io)
         THEN /\ procs' = [procs EXCEPT ![p] = Return(pr, FALSE, io.err)]
              /\ UNCHANGED cache
         ELSE /\ cache' = CacheDelete(cache, f.userName)
              /\ procs' = [procs EXCEPT ![p] = Return(pr, TRUE, io.res)]
  /\ UNCHANGED dir

----------------------------------------------------------------------------
(* getUserLocation(userName) *)

GetUserLocationFrame(userName) ==
  [fn |-> "getUserLocation", pc |-> "start", userName |-> userName]

\* an RDN type as it is written in a DN string
LabelToken(t) ==
  CASE t = "CN" -> "CN=" [] t = "OU" -> "OU=" [] t = "DC" -> "DC="
    [] t = "dc" -> "dc=" [] OTHER -> t

\* the text of an RDN value, cut where it holds the text of an RDN type
ValueTokens(v) ==
  CASE v = "" -> <<>>
    [] v = "IOU=5" -> <<"I", "OU=", "5">>
    [] OTHER -> <<v>>

\* String(dn): the DN as text, a sequence of tokens
RECURSIVE Render(_)
Render(dn) ==
  IF dn = <<>> THEN <<>>
  ELSE LET h == <<LabelToken(Head(dn).t)>> \o ValueTokens(Head(dn).v)
       IN  IF Tail(dn) = <<>> THEN h ELSE h \o <<",">> \o Render(Tail(dn))

\* .replace(/DC=/g, 'dc=').replace(/CN=/g, 'cn=').replace(/OU=/g, 'ou=')
LowerLabels(s) ==
  [i \in 1..Len(s) |->
     CASE s[i] = "DC=" -> "dc=" [] s[i] = "CN=" -> "cn=" [] s[i] = "OU=" -> "ou="
       [] OTHER -> s[i]]

\* .split(',dc=')[0]: the text before the first ',dc='
BeforeBase(s) ==
  LET cut == {i \in 1..(Len(s) - 1) : s[i] = "," /\ s[i + 1] = "dc="}
  IN  IF cut = {} THEN s
      ELSE SubSeq(s, 1, (CHOOSE i \in cut : \A j \in cut : i <= j) - 1)

\* .split(',')
RECURSIVE SplitComma(_)
SplitComma(s) ==
  LET commas == {i \in 1..Len(s) : s[i] = ","}
  IN  IF commas = {} THEN <<s>>
      ELSE LET i == CHOOSE k \in commas : \A j \in commas : k <= j
           IN  <<SubSeq(s, 1, i - 1)>> \o SplitComma(SubSeq(s, i + 1, Len(s)))

\* .reverse()
RECURSIVE Reverse(_)
Reverse(q) == IF q = <<>> THEN <<>> ELSE Reverse(Tail(q)) \o <<Head(q)>>

\* .join('/')
RECURSIVE JoinSlash(_)
JoinSlash(parts) ==
  IF parts = <<>> THEN <<>>
  ELSE IF Len(parts) = 1 THEN parts[1]
  ELSE parts[1] \o <<"/">> \o JoinSlash(Tail(parts))

\* .replace(/cn=/g, '!').replace(/ou=/g, '')
StripLabels(s) ==
  SelectSeq([i \in 1..Len(s) |-> IF s[i] = "cn=" THEN "!" ELSE s[i]],
            LAMBDA x : x # "ou=")

\* the location getUserLocation computes from a DN, as text
LocationOf(dn) ==
  LET left == BeforeBase(LowerLabels(Render(dn)))
  IN  StripLabels(JoinSlash(Reverse(Tail(SplitComma(left)))))

UserDoesNotExist == [error |-> TRUE, message |-> "User does not exist."]

GetUserLocationStart(p) ==
  /\ At(p, "getUserLocation", "start")
  /\ LET pr == procs[p]
         f == Top(pr)
     IN  procs' = [procs EXCEPT ![p] =
                     Invoke(pr, [f EXCEPT !.pc = "found"],
                            FindUserFrame(f.userName, NoOpts))]
  /\ UNCHANGED <<dir, cache>>

GetUserLocationFound(p) ==
  /\ At(p, "getUserLocation", "found")
  /\ LET pr == procs[p]
     IN  procs' = [procs EXCEPT ![p] =
           IF RetFailed(pr) THEN Return(pr, FALSE, pr.ret.val)
           ELSE IF NoKeys(pr.ret.val) THEN Return(pr, FALSE, UserDoesNotExist)
           ELSE Return(pr, TRUE, [location |-> LocationOf(DnOf(pr.ret.val))])]
  /\ UNCHANGED <<dir, cache>>

----------------------------------------------------------------------------
(* removeUser(userName) *)

RemoveUserFrame(userName) ==
  [fn |-> "removeUser", pc |-> "start", userName |-> userName]

RemoveUserStart(p) ==
  /\ At(p, "removeUser", "start")
  /\ LET pr == procs[p]
         f == Top(pr)
     IN  procs' = [procs EXCEPT ![p] =
                     Invoke(pr, [f EXCEPT !.pc = "found"],
                            FindUserFrame(f.userName, NoOpts))]
  /\ UNCHANGED <<dir, cache>>

\* the empty record is not told from a user
RemoveUserNeverMissing(userObject) == FALSE

\* whether removeUser takes the record for "no such user"
RemoveUserMissing(userObject) == NoKeys(userObject)

\* the .then of the lookup; a failed lookup has no handler
RemoveUserFound(p) ==
  /\ At(p, "removeUser", "found")
  /\ LET pr == procs[p]
         f == Top(pr)
     IN  procs' = [procs EXCEPT ![p] =
           IF RetFailed(pr) THEN Abandon(pr)
           ELSE IF RemoveUserMissing(pr.ret.val)
           THEN Return(pr, FALSE, UserDoesNotExist)
           ELSE Send(pr, [f EXCEPT !.pc = "deleted"],
                     [kind |-> "delete", dn |-> DnOf(pr.ret.val)])]
  /\ UNCHANGED <<dir, cache>>

RemoveUserCallback(p) ==
  /\ AtCallback(p, "removeUser", "deleted")
  /\ LET pr == Received(procs[p])
         io == procs[p].io
     IN  procs' = [procs EXCEPT ![p] =
           IF Failed(io) THEN Return(pr, FALSE, WithAttr(io.err, "error", TRUE))
           ELSE Return(pr, TRUE, io.res)]
  /\ UNCHANGED <<dir, cache>>

----------------------------------------------------------------------------
(* updateUser(userName, opts).  opts is the list of its own properties in  *)
(* insertion order, each a [key, value] pair.                              *)

HasKey(opts, key) == \E i \in 1..Len(opts) : opts[i].key = key
ValueOf(opts, key) == opts[CHOOSE i \in 1..Len(opts) : opts[i].key = key].value

\* the operations list: one {key: value} per property, passwords encoded
Operations(opts) ==
  [i \in 1..Len(opts) |->
     [key |-> opts[i].key,
      value |-> IF opts[i].key = "unicodePwd" THEN encodePassword(opts[i].value)
                ELSE opts[i].value]]

UpdateUserFrame(userName, opts) ==
  [fn |-> "updateUser", pc |-> "start", userName |-> userName, opts |-> opts,
   operations |-> Operations(opts), currUserName |-> userName,
   next |-> [key |-> "", value |-> ""]]

\* operations.shift() in the place of operations.pop()
ShiftIndex(operations) == 1

\* operations.pop(): the position of the operation taken next
PopIndex(operations) == Len(operations)

\* operations without the one at position i
Without(operations, i) ==
  SubSeq(operations, 1, i - 1) \o SubSeq(operations, i + 1, Len(operations))

\* go(): <<the process, the cache>> after it
Go(pr, c) ==
  LET f == Top(pr)
  IN  IF Len(f.operations) < 1
      THEN <<Return(pr, TRUE, EmptyRecord),
             CacheDelete(CacheDelete(c, f.currUserName), f.userName)>>
      ELSE LET i == PopIndex(f.operations)
               next == f.operations[i]
           IN  <<Invoke(pr, [f EXCEPT !.pc = "written", !.next = next,
                                      !.operations = Without(f.operations, i)],
                        setUserProperty(f.currUserName, next.key, next.value)),
                 c>>

UpdateUserStart(p) ==
  /\ At(p, "updateUser", "start")
  /\ LET pr == procs[p]
         f == Top(pr)
     IN  procs' = [procs EXCEPT ![p] =
                     Invoke(pr, [f EXCEPT !.pc = "found"],
                            FindUserFrame(f.currUserName, NoOpts))]
  /\ UNCHANGED <<dir, cache>>

\* .then: opts.commonName
UpdateUserFound(p) ==
  /\ At(p, "updateUser", "found")
  /\ LET pr == procs[p]
         f == Top(pr)
     IN  procs' = [procs EXCEPT ![p] =
           IF RetFailed(pr) THEN Return(pr, FALSE, pr.ret.val)
           ELSE IF HasKey(f.opts, "commonName")
           THEN Invoke(pr, [f EXCEPT !.pc = "named"],
                       SetUserCNFrame(f.currUserName, ValueOf(f.opts, "commonName")))
           ELSE Goto(pr, [f EXCEPT !.pc = "named"])]
  /\ UNCHANGED <<dir, cache>>

\* .then: opts.passwordExpires
UpdateUserNamed(p) ==
  /\ At(p, "updateUser", "named")
  /\ LET pr == procs[p]
         f == Top(pr)
     IN  procs' = [procs EXCEPT ![p] =
           IF RetFailed(pr) THEN Return(pr, FALSE, pr.ret.val)
           ELSE IF HasKey(f.opts, "passwordExpires")
           THEN Invoke(pr, [f EXCEPT !.pc = "expiry"],
                       IF ValueOf(f.opts, "passwordExpires") = FALSE
                       THEN setUserPasswordNeverExpires(f.userName)
                       ELSE enableUser(f.userName))
           ELSE Goto(pr, [f EXCEPT !.pc = "expiry"])]
  /\ UNCHANGED <<dir, cache>>

\* .then: opts.enabled
UpdateUserExpiry(p) ==
  /\ At(p, "updateUser", "expiry")
  /\ LET pr == procs[p]
         f == Top(pr)
     IN  procs' = [procs EXCEPT ![p] =
           IF RetFailed(pr) THEN Return(pr, FALSE, pr.ret.val)
           ELSE IF HasKey(f.opts, "enabled")
           THEN Invoke(pr, [f EXCEPT !.pc = "enabled"],
                       IF ValueOf(f.opts, "enabled") = FALSE
                       THEN disableUser(f.userName)
                       ELSE enableUser(f.userName))
           ELSE Goto(pr, [f EXCEPT !.pc = "enabled"])]
  /\ UNCHANGED <<dir, cache>>

\* .then(res => go())
UpdateUserEnabled(p) ==
  /\ At(p, "updateUser", "enabled")
  /\ LET pr == procs[p]
         after == Go(pr, cache)
     IN  IF RetFailed(pr)
         THEN /\ procs' = [procs EXCEPT ![p] = Return(pr, FALSE, pr.ret.val)]
              /\ UNCHANGED cache
         ELSE /\ procs' = [procs EXCEPT ![p] = after[1]]
              /\ cache' = after[2]
  /\ UNCHANGED dir

\* the reactions to setUserProperty inside go()
UpdateUserWritten(p) ==
  /\ At(p, "updateUser", "written")
  /\ LET pr == procs[p]
         f == Top(pr)
         curr == IF f.next.key = "userPrincipalName" THEN f.next.value
                 ELSE f.currUserName
         after == Go(Goto(pr, [f EXCEPT !.currUserName = curr]),
                     CacheDelete(cache, curr))
     IN  IF RetFailed(pr)
         THEN /\ procs' = [procs EXCEPT ![p] = Return(pr, FALSE, pr.ret.val)]
              /\ UNCHANGED cache
         ELSE /\ procs' = [procs EXCEPT ![p] = after[1]]
              /\ cache' = after[2]
  /\ UNCHANGED dir

----------------------------------------------------------------------------
(* addUser(userObject, userLocation).  A mail address is the sequence of   *)
(* its characters; a location is the sequence of its RDNs and commas.      *)

Letters == {"a", "b", "c", "m", "o"}
WordChars == Letters \cup {"0", "1", "_", "-", "."}

\* /^[a-zA-Z0-9_\-\.]+@[a-zA-Z0-9_\-\.]+\.[a-zA-Z]{2,5}$/.test(email)
MatchesEmailPattern(email) ==
  \E i, j \in 1..Len(email) :
    /\ email[i] = "@"
    /\ i >= 2
    /\ \A k \in 1..(i - 1) : email[k] \in WordChars
    /\ j > i + 1
    /\ email[j] = "."
    /\ \A k \in (i + 1)..(j - 1) : email[k] \in WordChars
    /\ Len(email) - j \in 2..5
    /\ \A k \in (j + 1)..Len(email) : email[k] \in Letters

\* s.trim().length === 0, for a sequence of characters or of tokens
AllBlank(str, blank) == \A i \in 1..Len(str) : str[i] = blank

isCorrectEmail(email) ==
  IF email = <<>> \/ AllBlank(email, " ") THEN FALSE
  ELSE MatchesEmailPattern(email)

Comma == [t |-> ",", v |-> ""]
Space == [t |-> " ", v |-> ""]

\* the comma is appended whatever the location is
normalizeLocationAlwaysAppends(userLocation) == Append(userLocation, Comma)

normalizeLocation(userLocation) ==
  IF userLocation = <<>> \/ AllBlank(userLocation, Space)
  THEN <<[t |-> "CN", v |-> "Users"], Comma>>
  ELSE IF userLocation[Len(userLocation)] # Comma
  THEN Append(userLocation, Comma)
  ELSE userLocation

\* (!s) || (s.trim().length === 0), for an account name
NameMissing(name) == name = "" \/ name = " "

\* the pools of createPassword, one character per element
Specials ==
  <<"!", "middot", "$", "%", "&", "/", "(", ")", "=", "?", "iquest", "_", "-",
    "{", "}", "*", "supplus">>
Digits == <<"0", "1", "2", "3", "4", "5", "6", "7", "8", "9">>
LowerLetters ==
  <<"q", "w", "e", "r", "t", "y", "u", "i", "o", "p", "a", "s", "d", "f", "g",
    "h", "j", "k", "l", "ntilde", "z", "x", "c", "v", "b", "n", "m">>
UpperLetters ==
  <<"Q", "W", "E", "R", "T", "Y", "U", "I", "O", "P", "A", "S", "D", "F", "G",
    "H", "J", "K", "L", "NTILDE", "Z", "X", "C", "V", "B", "N", "M">>

\* Math.random() is k / RandomDen for some k in 0..(RandomDen - 1)
RandomDen == 32

\* an index past the end of the pool can come out
getRandomIndexOfLength(max, k) == (k * (max + 1) + RandomDen - 1) \div RandomDen

\* Math.ceil(Math.random() * max)
getRandomIndex(max, k) == (k * max + RandomDen - 1) \div RandomDen

\* `${source[index]}`
CharAt(source, index) ==
  IF index + 1 \in 1..Len(source) THEN source[index + 1] ELSE "undefined"

\* _getRandomString(source, length), the random values being ks
getRandomString(source, length, ks) ==
  [i \in 1..length |-> CharAt(source, getRandomIndex(Len(source) - 1, ks[i]))]

\* .toUpperCase(), character by character
ToUpperCase(str) ==
  [i \in 1..Len(str) |->
     IF \E j \in 1..Len(LowerLetters) : LowerLetters[j] = str[i]
     THEN UpperLetters[CHOOSE j \in 1..Len(LowerLetters) : LowerLetters[j] = str[i]]
     ELSE str[i]]

\* createPassword(), the nine random values it draws being ks
createPassword(ks) ==
  LET sp == getRandomString(Specials, 1, SubSeq(ks, 1, 1))
      dig == getRandomString(Digits, 3, SubSeq(ks, 2, 4))
      upp == ToUpperCase(getRandomString(LowerLetters, 2, SubSeq(ks, 5, 6)))
      low == getRandomString(LowerLetters, 3, SubSeq(ks, 7, 9))
  IN  sp \o dig \o upp \o low

\* the password createPassword() generated for this call
GeneratedPassword == "!012QWert"

\* ssha.create(password)
SshaCreate(password) == <<"{SSHA256}", password>>

\* the DN this._addObject gives the directory: `${name},${location}${baseDN}`
FullDN(name, location) ==
  SelectSeq(<<name, Comma>> \o location, LAMBDA x : x # Comma) \o UpperDC(BaseDN)

AddUserFrame(userObject, userLocation) ==
  [fn |-> "addUser", pc |-> "start", userObject |-> userObject,
   userLocation |-> userLocation, password |-> ""]

\* the process after the two validations of addUser
AddUserValidated(pr, userObject) ==
  LET mailChecked ==
        IF ~isCorrectEmail(userObject.mail)
        THEN Settle(pr, FALSE, [string |-> "Incorrect email address"])
        ELSE pr
  IN  IF NameMissing(userObject.sAMAccountName)
      THEN Settle(mailChecked, FALSE, [string |-> "sAMAccountName not specified"])
      ELSE mailChecked

\* the executor up to its first await: validation, then the create
AddUserStart(p) ==
  /\ At(p, "addUser", "start")
  /\ LET pr == AddUserValidated(procs[p], Top(procs[p]).userObject)
         f == Top(pr)
         password == GeneratedPassword
         userObject == WithAttr(f.userObject, "userPassword", SshaCreate(password))
         userLocation == normalizeLocation(f.userLocation)
         name == [t |-> "CN", v |-> userObject.sAMAccountName]
     IN  procs' = [procs EXCEPT ![p] =
           Send(pr, [f EXCEPT !.pc = "created", !.userObject = userObject,
                              !.userLocation = userLocation,
                              !.password = password],
                [kind |-> "add", dn |-> FullDN(name, userLocation),
                 entry |-> WithAttr(WithAttr(userObject, "cn", name.v),
                                    "dn", FullDN(name, userLocation))])]
  /\ UNCHANGED <<dir, cache>>

\* catch (err): the error addUser rejects with
AddUserError(err) ==
  IF err.message = "ENTRY_EXISTS"
  THEN [message |-> "User already exists.", httpStatus |-> 400]
  ELSE [message |-> "Error creating user", cause |-> err.message,
        httpStatus |-> 503]

\* the create's failure goes unnoticed and the password is set all the same
AddUserCreatedUnchecked(p) ==
  /\ AtCallback(p, "addUser", "created")
  /\ LET pr == Received(procs[p])
         f == Top(pr)
     IN  procs' = [procs EXCEPT ![p] =
           Invoke(pr, [f EXCEPT !.pc = "passwordSet"],
                  SetUserPasswordFrame(<<f.userObject.sAMAccountName>>,
                                       f.password))]
  /\ UNCHANGED <<dir, cache>>

\* after await this._addObject(...)
AddUserCreated(p) ==
  /\ AtCallback(p, "addUser", "created")
  /\ LET pr == Received(procs[p])
         f == Top(pr)
         io == procs[p].io
     IN  procs' = [procs EXCEPT ![p] =
           IF Failed(io) THEN Return(pr, FALSE, AddUserError(io.err))
           ELSE Invoke(pr, [f EXCEPT !.pc = "passwordSet"],
                       SetUserPasswordFrame(<<f.userObject.sAMAccountName>>,
                                            f.password))]
  /\ UNCHANGED <<dir, cache>>

\* after await this.setUserPassword(...)
AddUserPasswordSet(p) ==
  /\ At(p, "addUser", "passwordSet")
  /\ LET pr == procs[p]
         f == Top(pr)
     IN  procs' = [procs EXCEPT ![p] =
           IF RetFailed(pr) THEN Return(pr, FALSE, AddUserError(pr.ret.val))
           ELSE Invoke(pr, [f EXCEPT !.pc = "enabled"],
                       enableUser(<<f.userObject.sAMAccountName>>))]
  /\ UNCHANGED <<dir, cache>>

\* after await this.enableUser(...)
AddUserEnabled(p) ==
  /\ At(p, "addUser", "enabled")
  /\ LET pr == procs[p]
         f == Top(pr)
     IN  procs' = [procs EXCEPT ![p] =
           IF RetFailed(pr) THEN Return(pr, FALSE, AddUserError(pr.ret.val))
           ELSE Return(pr, TRUE, [userObject |-> f.userObject,
                                  password |-> f.password])]
  /\ UNCHANGED <<dir, cache>>

----------------------------------------------------------------------------
(* authenticateUser(userName, pass) *)

AuthenticateUserFrame(userName, pass) ==
  [fn |-> "authenticateUser", pc |-> "start", userName |-> userName,
   pass |-> pass]

\* fullUser = `${userName}@${domain}`; this.ad.authenticate(fullUser, pass, ...)
AuthenticateUserStart(p) ==
  /\ At(p, "authenticateUser", "start")
  /\ LET pr == procs[p]
         f == Top(pr)
     IN  procs' = [procs EXCEPT ![p] =
                     Send(pr, [f EXCEPT !.pc = "answered"],
                          [kind |-> "authenticate",
                           user |-> f.userName \o <<"@", Domain>>,
                           pass |-> f.pass])]
  /\ UNCHANGED <<dir, cache>>

\* error && error.lde_message
HasLdeMessage(err) == "lde_message" \in DOMAIN err

\* out.detail = ...; out.message = ...: the two assignments throw a TypeError
\* on undefined, do nothing on a primitive, set the properties of an object
CannotAssign(out) == out.type = "undefined"

\* String(error.stack).split(':')[0]
StackHead(err) == Head(err.stack)

Annotate(out, err) ==
  IF out.type = "object"
  THEN Object(WithAttr(WithAttr(out.fields, "detail", err.lde_message),
                       "message", StackHead(err)))
  ELSE out

\* the callback of this.ad.authenticate
AuthenticateUserCallback(p) ==
  /\ AtCallback(p, "authenticateUser", "answered")
  /\ LET pr == Received(procs[p])
         io == procs[p].io
     IN  procs' = [procs EXCEPT ![p] =
           IF Failed(io) /\ HasLdeMessage(io.err)
           THEN IF CannotAssign(io.res) THEN Abandon(pr)
                ELSE Return(pr, TRUE, Annotate(io.res, io.err))
           ELSE IF Failed(io) THEN Return(pr, FALSE, io.err)
           ELSE Return(pr, TRUE, io.res)]
  /\ UNCHANGED <<dir, cache>>

----------------------------------------------------------------------------
(* Calls of the application *)

UserNames == {Bare(n) : n \in Accounts} \cup {Full(n) : n \in Accounts}

CanCall == Len(procs) < MaxCalls /\ ~AnyRunnable

\* the calls made so far and one more
Called(op, arg, frame) ==
  Append(procs,
         NewProc(op, arg, frame, {q \in DOMAIN procs : ~InFlight(procs[q])}))

CallFindUser ==
  /\ CanCall
  /\ \E u \in UserNames, o \in OptsChoices :
       procs' = Called("findUser", [userName |-> u, opts |-> o], FindUserFrame(u, o))
  /\ UNCHANGED <<dir, cache>>

\* the common names the model gives setUserCN
CommonNames == {"x"}

CallSetUserCN ==
  /\ CanCall
  /\ \E u \in UserNames, cn \in CommonNames :
       procs' = Called("setUserCN", [userName |-> u, cn |-> cn], SetUserCNFrame(u, cn))
  /\ UNCHANGED <<dir, cache>>

\* the locations the model gives moveUser, as paths
Paths == {<<"EMEA", "Dev">>}

CallMoveUser ==
  /\ CanCall
  /\ \E u \in UserNames, l \in Paths :
       procs' = Called("moveUser", [userName |-> u, location |-> l], MoveUserFrame(u, l))
  /\ UNCHANGED <<dir, cache>>

CallGetUserLocation ==
  /\ CanCall
  /\ \E u \in UserNames :
       procs' = Called("getUserLocation", [userName |-> u], GetUserLocationFrame(u))
  /\ UNCHANGED <<dir, cache>>

CallRemoveUser ==
  /\ CanCall
  /\ \E u \in UserNames :
       procs' = Called("removeUser", [userName |-> u], RemoveUserFrame(u))
  /\ UNCHANGED <<dir, cache>>

CallEnableUser ==
  /\ CanCall
  /\ \E u \in UserNames :
       procs' = Called("enableUser", [userName |-> u], enableUser(u))
  /\ UNCHANGED <<dir, cache>>

CallDisableUser ==
  /\ CanCall
  /\ \E u \in UserNames :
       procs' = Called("disableUser", [userName |-> u], disableUser(u))
  /\ UNCHANGED <<dir, cache>>

CallSetUserPassword ==
  /\ CanCall
  /\ \E u \in UserNames, pass \in {"", "secret"} :
       procs' = Called("setUserPassword", [userName |-> u, pass |-> pass], SetUserPasswordFrame(u, pass))
  /\ UNCHANGED <<dir, cache>>

\* the option objects the model gives updateUser
Title == [key |-> "title", value |-> "Dr"]
Mail == [key |-> "mail", value |-> <<"a", "@", "b", ".", "c", "o">>]
Upn(name) == [key |-> "userPrincipalName", value |-> name]
UpdateOpts ==
  {<<>>, <<Title, Mail>>,
   <<Upn(Full("u2"))>>, <<Title, Upn(Bare("u2"))>>,
   <<Upn(Full("u2")), Title>>,
   <<[key |-> "commonName", value |-> "x"]>>,
   <<[key |-> "passwordExpires", value |-> FALSE]>>,
   <<[key |-> "enabled", value |-> FALSE], Title>>,
   <<[key |-> "unicodePwd", value |-> "secret"]>>}

\* the option objects of the mixed workloads
FewUpdateOpts == {<<>>, <<Title>>, <<Upn(Full("u2"))>>}

UpdateUserCall(menu) ==
  /\ CanCall
  /\ \E u \in UserNames, o \in menu :
       procs' = Called("updateUser", [userName |-> u, opts |-> o], UpdateUserFrame(u, o))
  /\ UNCHANGED <<dir, cache>>

CallUpdateUser == UpdateUserCall(UpdateOpts)

CallUpdateUserFew == UpdateUserCall(FewUpdateOpts)

\* the arguments the model gives addUser
GoodMail == <<"a", "@", "b", ".", "c", "o">>
BadMail == <<"a", "@", "b">>
NewAccounts == {"u1", "u2", " "}
Locations == {<<>>, <<[t |-> "OU", v |-> "Sales"]>>}

CallAddUser ==
  /\ CanCall
  /\ \E mail \in {GoodMail, BadMail}, name \in NewAccounts, l \in Locations :
       procs' = Called("addUser", [userObject |-> [mail |-> mail, sAMAccountName |-> name], userLocation |-> l], AddUserFrame([mail |-> mail, sAMAccountName |-> name], l))
  /\ UNCHANGED <<dir, cache>>

\* the passwords the model gives authenticateUser
Passwords == {"secret", "wrong"}

CallAuthenticateUser ==
  /\ CanCall
  /\ \E u \in UserNames, pass \in Passwords :
       procs' = Called("authenticateUser", [userName |-> u, pass |-> pass], AuthenticateUserFrame(u, pass))
  /\ UNCHANGED <<dir, cache>>

\* a call of a synchronous method: it has returned when the call is over
Returned(op, arg, val) ==
  Append(procs,
         [NewProc(op, arg, [fn |-> op, pc |-> "start"],
                  {q \in DOMAIN procs : ~InFlight(procs[q])})
            EXCEPT !.stack = <<>>, !.outcome = "returned", !.value = val])

\* the locations the model gives normalizeLocation: '' (or undefined),
\* blanks, an OU with and without commas and blanks around it
MaxLocLen == 2
LocationTexts ==
  UNION {[1..n -> {[t |-> "OU", v |-> "Sales"], Comma, Space}] : n \in 0..MaxLocLen}

\* what earlier calls of normalizeLocation returned
NormalizedBefore ==
  {procs[q].value.location : q \in {r \in DOMAIN procs : procs[r].op = "normalizeLocation"}}

CallNormalizeLocation ==
  /\ CanCall
  /\ \E l \in LocationTexts \cup NormalizedBefore :
       procs' = Returned("normalizeLocation", [userLocation |-> l], [location |-> normalizeLocation(l)])
  /\ UNCHANGED <<dir, cache>>

\* the random values the model lets Math.random() return: 0, the least
\* value above 0 and the greatest value below 1
Randoms == {0, 1, RandomDen - 1}
MaxPasswords == 1

CallCreatePassword ==
  /\ Len(procs) < MaxPasswords
  /\ \E ks \in [1..9 -> Randoms] :
       procs' = Returned("createPassword", [randoms |-> ks], [password |-> createPassword(ks)])
  /\ UNCHANGED <<dir, cache>>

\* calls about an account the directory does not hold yet, in longer runs
MaxNewUserCalls == 3
NewUser == "u2"
CanCallNewUser == Len(procs) < MaxNewUserCalls /\ ~AnyRunnable

CallFindNewUser ==
  /\ CanCallNewUser
  /\ \E u \in {Bare(NewUser), Full(NewUser)} :
       procs' = Called("findUser", [userName |-> u, opts |-> NoOpts], FindUserFrame(u, NoOpts))
  /\ UNCHANGED <<dir, cache>>

CallAddNewUser ==
  /\ CanCallNewUser
  /\ procs' = Called("addUser", [userObject |-> [mail |-> GoodMail, sAMAccountName |-> NewUser], userLocation |-> <<>>], AddUserFrame([mail |-> GoodMail, sAMAccountName |-> NewUser], <<>>))
  /\ UNCHANGED <<dir, cache>>

----------------------------------------------------------------------------

\* a user as the directory holds it
Entry(name, ou) ==
  [dn |-> <<[t |-> "CN", v |-> name], [t |-> "OU", v |-> ou],
            [t |-> "DC", v |-> "corp"], [t |-> "DC", v |-> "com"]>>,
   cn |-> name, sAMAccountName |-> name, userPrincipalName |-> Full(name),
   userAccountControl |-> 512]

\* OU names of the users the location is asked of
OUNames == {"Sales", "EMEA", "IOU=5"}
MaxOUs == 2

\* the OU chains, innermost first, of at most MaxOUs units
OUChains ==
  UNION {[1..n -> {[t |-> "OU", v |-> o] : o \in OUNames}] : n \in 0..MaxOUs}

\* user u1 with common name Jane under a chain of OUs
EntryUnder(chain) ==
  [Entry("u1", "Sales") EXCEPT
     !.cn = "Jane",
     !.dn = <<[t |-> "CN", v |-> "Jane"]>> \o chain
              \o <<[t |-> "DC", v |-> "corp"], [t |-> "DC", v |-> "com"]>>]

\* the facade as constructed, the directory holding one user somewhere
InitLocate ==
  /\ dir \in {{EntryUnder(chain)} : chain \in OUChains}
  /\ cache = [k \in {} |-> EmptyRecord]
  /\ procs = <<>>

\* the facade as constructed: an empty cache; the directory holds u1
Init ==
  /\ dir = {Entry("u1", "Sales")}
  /\ cache = [k \in {} |-> EmptyRecord]
  /\ procs = <<>>

\* the positions of the calls of a behaviour
LongestRun == IF MaxNewUserCalls > MaxCalls THEN MaxNewUserCalls ELSE MaxCalls
Procs == 1..LongestRun

\* the directory and the lookup, used by every operation
Lookup ==
  \E p \in Procs : Serve(p) \/ FindUserStart(p) \/ FindUserCallback(p)

Replace ==
  \E p \in Procs :
    UserReplaceStart(p) \/ UserReplaceFound(p) \/ UserReplaceCallback(p)

Password ==
  \E p \in Procs : SetUserPasswordStart(p) \/ SetUserPasswordDone(p)

RenameCN ==
  \E p \in Procs :
    SetUserCNStart(p) \/ SetUserCNFound(p) \/ SetUserCNCallback(p)

Move ==
  \E p \in Procs :
    MoveUserStart(p) \/ MoveUserFound(p) \/ MoveUserCallback(p)

Update ==
  \E p \in Procs :
    \/ UpdateUserStart(p) \/ UpdateUserFound(p) \/ UpdateUserNamed(p)
    \/ UpdateUserExpiry(p) \/ UpdateUserEnabled(p) \/ UpdateUserWritten(p)

Locate ==
  \E p \in Procs : GetUserLocationStart(p) \/ GetUserLocationFound(p)

Remove ==
  \E p \in Procs :
    RemoveUserStart(p) \/ RemoveUserFound(p) \/ RemoveUserCallback(p)

Add ==
  \E p \in Procs :
    \/ AddUserStart(p) \/ AddUserCreated(p) \/ AddUserPasswordSet(p)
    \/ AddUserEnabled(p)

Authenticate ==
  \E p \in Procs : AuthenticateUserStart(p) \/ AuthenticateUserCallback(p)

\* the directory alone
Directory == \E p \in Procs : Serve(p)

\* the asynchronous operations of the facade together (the synchronous
\* helpers and the longer runs about a new user have specifications of
\* their own)
Next ==
  \/ CallFindUser \/ CallSetUserCN \/ CallMoveUser \/ CallGetUserLocation
  \/ CallRemoveUser \/ CallEnableUser \/ CallDisableUser
  \/ CallSetUserPassword \/ CallUpdateUserFew \/ CallAddUser
  \/ CallAuthenticateUser
  \/ Lookup \/ Replace \/ Password \/ RenameCN \/ Move \/ Update \/ Locate
  \/ Remove \/ Add \/ Authenticate

\* lookups only
NextFind == CallFindUser \/ Lookup

\* lookups and the mutations of a user
NextMutate ==
  \/ CallFindUser \/ CallSetUserCN \/ CallMoveUser \/ CallEnableUser
  \/ CallDisableUser \/ CallSetUserPassword \/ CallUpdateUserFew
  \/ Lookup \/ Replace \/ Password \/ RenameCN \/ Move \/ Update

\* lookups and updateUser with every option object
NextUpdate ==
  \/ CallFindUser \/ CallUpdateUser
  \/ Lookup \/ Replace \/ RenameCN \/ Update

\* lookups and addUser
NextAdd == CallFindUser \/ CallAddUser \/ Lookup \/ Replace \/ Password \/ Add

\* lookups and the operations on a user's place in the tree
NextPlace ==
  \/ CallFindUser \/ CallMoveUser \/ CallGetUserLocation \/ CallRemoveUser
  \/ Lookup \/ Move \/ Locate \/ Remove

\* getUserLocation only
NextLocate == CallGetUserLocation \/ Lookup \/ Locate

\* normalizeLocation only
NextNormalize == CallNormalizeLocation

\* createPassword only
NextPassword == CallCreatePassword

\* lookups and the creation of one new user
NextCreate ==
  CallFindNewUser \/ CallAddNewUser \/ Lookup \/ Replace \/ Password \/ Add

\* authentication only
NextAuth == CallAuthenticateUser \/ Directory \/ Authenticate

Spec == Init /\ [][Next]_vars
SpecFind == Init /\ [][NextFind]_vars
SpecMutate == Init /\ [][NextMutate]_vars
SpecUpdate == Init /\ [][NextUpdate]_vars
SpecAdd == Init /\ [][NextAdd]_vars
SpecPlace == Init /\ [][NextPlace]_vars
SpecAuth == Init /\ [][NextAuth]_vars
SpecLocate == InitLocate /\ [][NextLocate]_vars
SpecNormalize == Init /\ [][NextNormalize]_vars
SpecPassword == Init /\ [][NextPassword]_vars
SpecCreate == Init /\ [][NextCreate]_vars


----------------------------------------------------------------------------
(* Vocabulary of the properties *)

Ended(p) == ~InFlight(procs[p])
Resolved(p) == procs[p].outcome = "resolved"
Rejected(p) == procs[p].outcome = "rejected"
Idle == \A p \in DOMAIN procs : Ended(p)

\* the user a call names, whatever the form of the name
UserOf(p) == StripDomain(procs[p].arg.userName)

\* the requests of kind k that call p sent to the directory
Requests(p, k) == SelectSeq(procs[p].log, LAMBDA e : e.req.kind = k)

\* call p began with a query to the directory
QueriedDirectory(p) ==
  Len(procs[p].log) > 0 /\ procs[p].log[1].req.kind = "find"

\* the record the directory holds for a key now ({} if none)
Current(key, r) ==
  IF Matches(dir, key) = {} THEN r = EmptyRecord ELSE r \in Matches(dir, key)

----------------------------------------------------------------------------
(* C1: once a findUser(U, opts) has completed, a later findUser with the   *)
(* same argument and options, U in bare or in user@domain form, sends no   *)
(* find to the directory and returns the same shaped record.               *)
C1_SecondLookupFromCache ==
  \A p, q \in DOMAIN procs :
    ( /\ procs[p].op = "findUser"
      /\ procs[q].op = "findUser"
      /\ procs[p].arg = procs[q].arg
      /\ Resolved(p)
      /\ p \in procs[q].after
      /\ Ended(q) )
    => /\ procs[q].log = <<>>
       /\ Resolved(q)
       /\ procs[q].value = procs[p].value

(* C2: after a successful setUserCN, moveUser, updateUser, enableUser,     *)
(* disableUser or setUserPassword on user U, the next findUser for U, in   *)
(* either form of the name in either call, queries the directory afresh.   *)
IsMutation(p) ==
  \/ procs[p].op \in {"setUserCN", "moveUser", "enableUser", "disableUser",
                      "setUserPassword"}
  \/ procs[p].op = "updateUser" /\ procs[p].arg.opts # <<>>

C2_FreshLookupAfterMutation ==
  \A p, q \in DOMAIN procs :
    ( /\ q = p + 1
      /\ IsMutation(p)
      /\ Resolved(p)
      /\ procs[q].after = 1..p
      /\ procs[q].op = "findUser"
      /\ UserOf(q) = UserOf(p)
      /\ Ended(q) )
    => QueriedDirectory(q)

(* C3: when findUser and setUserCN, moveUser or updateUser calls on the    *)
(* same user U interleave, then whenever no call is in flight a cache      *)
(* entry for U equals the directory's current record for U.  Stated for    *)
(* calls that all name U in the bare form.                                 *)
C3_CacheCurrentWhenIdle ==
  \A n \in Accounts :
    ( /\ Idle
      /\ \A p \in DOMAIN procs :
           /\ procs[p].op \in {"findUser", "setUserCN", "moveUser", "updateUser"}
           /\ procs[p].arg.userName = Bare(n)
      /\ CacheHas(cache, Bare(n)) )
    => Current(Bare(n), cache[Bare(n)])


(* C4: updateUser sends its attribute writes one at a time, the last       *)
(* collected property first: the directory has answered a write with       *)
(* success before updateUser calls the directory again, the cache entry    *)
(* of the current user name has been removed before the next write         *)
(* begins, and a write that fails is the call's last directory call and    *)
(* its error is what updateUser rejects with.                              *)
IsOpWrite(e) ==
  e.req.kind = "replace" /\ e.via[1] = <<"updateUser", "written">>

OpWrites(p) == SelectSeq(procs[p].log, IsOpWrite)

\* call p is about to begin a write that is not its first
BeginsLaterWrite(p) ==
  /\ Len(procs[p].stack) = 2
  /\ procs[p].stack[1].fn = "updateUser"
  /\ procs[p].stack[1].pc = "written"
  /\ procs[p].stack[2].pc = "start"
  /\ Len(procs[p].stack[1].operations) < Len(procs[p].arg.opts) - 1

C4_WritesOneAtATimeLastFirst ==
  \A p \in DOMAIN procs :
    procs[p].op = "updateUser" =>
      LET W == OpWrites(p)
          log == procs[p].log
          ops == Operations(procs[p].arg.opts)
          n == Len(ops)
      IN  /\ Len(W) <= n
          /\ \A i \in 1..Len(W) :
               /\ W[i].req.key = ops[n + 1 - i].key
               /\ W[i].req.value = ops[n + 1 - i].value
          /\ \A i \in 1..(Len(log) - 1) :
               IsOpWrite(log[i]) => log[i].err = NoError
          /\ BeginsLaterWrite(p) =>
               ~CacheHas(cache, procs[p].stack[1].currUserName)
          /\ (Ended(p) /\ Len(W) > 0 /\ W[Len(W)].err # NoError) =>
               Rejected(p) /\ procs[p].value = W[Len(W)].err

C4_Witness ==
  \E p, q \in DOMAIN procs :
    /\ procs[p].op = "updateUser" /\ Resolved(p) /\ Len(OpWrites(p)) = 2
    /\ procs[q].op = "updateUser" /\ Rejected(q) /\ Len(OpWrites(q)) = 2
    /\ OpWrites(q)[2].err = TransportError

(* C5: when updateUser writes a new userPrincipalName, then after each     *)
(* successful write of that call from the rename on the cache holds no     *)
(* entry for the old key and none for the new key.                         *)
RenameWritten(p) ==
  /\ At(p, "updateUser", "written")
  /\ ~RetFailed(procs[p])
  /\ HasKey(procs[p].arg.opts, "userPrincipalName")
  /\ ~HasKey(Top(procs[p]).operations, "userPrincipalName")

C5_RenameClearsBothKeys ==
  [][\A p \in DOMAIN procs :
       (RenameWritten(p) /\ procs'[p] # procs[p]) =>
         /\ ~CacheHas(cache', UserOf(p))
         /\ ~CacheHas(cache', StripDomain(ValueOf(procs[p].arg.opts,
                                                  "userPrincipalName")))]_vars


(* C6: addUser with a mail that fails isCorrectEmail, or with a missing or *)
(* blank sAMAccountName, rejects and calls the directory not at all.       *)
InvalidUser(userObject) ==
  ~isCorrectEmail(userObject.mail) \/ NameMissing(userObject.sAMAccountName)

C6_InvalidInputNoDirectoryCall ==
  \A p \in DOMAIN procs :
    (procs[p].op = "addUser" /\ InvalidUser(procs[p].arg.userObject)) =>
      /\ procs[p].log = <<>>
      /\ Ended(p) => Rejected(p)

(* C7: addUser creates the object, then sets the password, then enables    *)
(* the account: each of these writes is sent only after the directory      *)
(* answered the one before with success, no directory call follows a       *)
(* failed one, and addUser resolves, with the user object and the          *)
(* generated password, only after the directory answered all three with    *)
(* success.                                                                *)
Writes(p) == SelectSeq(procs[p].log, LAMBDA e : e.req.kind # "find")

C7_CreateThenPasswordThenEnable ==
  \A p \in DOMAIN procs :
    procs[p].op = "addUser" =>
      LET L == Writes(p)
          log == procs[p].log
      IN  /\ Len(L) <= 3
          /\ Len(L) >= 1 => L[1].req.kind = "add"
          /\ Len(L) >= 2 =>
               /\ L[1].err = NoError
               /\ L[2].req.kind = "replace"
               /\ L[2].req.key = "unicodePwd"
               /\ L[2].req.value = encodePassword(GeneratedPassword)
          /\ Len(L) >= 3 =>
               /\ L[2].err = NoError
               /\ L[3].req.kind = "replace"
               /\ L[3].req.key = "userAccountControl"
               /\ L[3].req.value = UAC_ENABLED
          /\ \A i \in 1..(Len(log) - 1) : log[i].err = NoError
          /\ Resolved(p) =>
               /\ Len(L) = 3
               /\ L[3].err = NoError
               /\ procs[p].value.password = GeneratedPassword
               /\ procs[p].value.userObject.sAMAccountName =
                    procs[p].arg.userObject.sAMAccountName

C7_Witness ==
  \E p \in DOMAIN procs :
    /\ procs[p].op = "addUser"
    /\ Resolved(p)
    /\ Len(Writes(p)) = 3

(* C8: when the create of addUser fails because the entry exists, addUser  *)
(* rejects with httpStatus 400 and sends neither the password write nor    *)
(* the enable write; when a step fails for another reason it rejects with  *)
(* httpStatus 503.                                                         *)
RejectedWithStatus(p, status) ==
  /\ Rejected(p)
  /\ "httpStatus" \in DOMAIN procs[p].value
  /\ procs[p].value.httpStatus = status

C8_StatusOfFailedCreation ==
  \A p \in DOMAIN procs :
    (procs[p].op = "addUser" /\ Ended(p)) =>
      LET L == Writes(p)
          log == procs[p].log
      IN  /\ (Len(L) >= 1 /\ L[1].err = EntryExists) =>
               RejectedWithStatus(p, 400) /\ Len(L) = 1
          /\ (\E i \in 1..Len(log) : log[i].err \notin {NoError, EntryExists}) =>
               RejectedWithStatus(p, 503)


(* C9: when the lookup of moveUser returns the empty record, moveUser      *)
(* rejects with the structured "User does not exist" error and does not    *)
(* call the DN rename.                                                     *)
LookupReturnedNothing(p, fn) ==
  /\ At(p, fn, "found")
  /\ ~RetFailed(procs[p])
  /\ NoKeys(procs[p].ret.val)

RejectsAsMissing(p) ==
  /\ procs'[p].outcome = "rejected"
  /\ procs'[p].value = UserDoesNotExist
  /\ procs'[p].log = procs[p].log
  /\ procs'[p].stack = <<>>

C9_MoveOfMissingUserRejected ==
  [][\A p \in DOMAIN procs :
       (LookupReturnedNothing(p, "moveUser") /\ procs'[p] # procs[p]) =>
         RejectsAsMissing(p)]_vars

(* C10: when the lookup of removeUser or of getUserLocation returns the    *)
(* empty record, the call rejects with {error: true, message: 'User does   *)
(* not exist.'} and ends there: removeUser sends no delete.                *)
C10_MissingUserRejected ==
  [][\A p \in DOMAIN procs :
       ( /\ \/ LookupReturnedNothing(p, "removeUser")
            \/ LookupReturnedNothing(p, "getUserLocation")
         /\ procs'[p] # procs[p] ) =>
         RejectsAsMissing(p)]_vars

C10_Witness ==
  \E p, q \in DOMAIN procs :
    /\ procs[p].op = "removeUser"
    /\ Rejected(p)
    /\ procs[p].value = UserDoesNotExist
    /\ Requests(p, "delete") = <<>>
    /\ procs[q].op = "getUserLocation"
    /\ Rejected(q)
    /\ procs[q].value = UserDoesNotExist
    /\ procs[q].log = <<>>

(* C11: when a directory call made during an operation fails, the promise  *)
(* the operation returned is rejected: once the operation's work has       *)
(* ended, with no reaction and no callback of it left to run, a call that  *)
(* saw a directory error is rejected and not pending.                      *)
SawDirectoryError(p) ==
  \E i \in 1..Len(procs[p].log) :
    procs[p].log[i].err \notin {NoError, Unanswered}

C11_FailedCallRejects ==
  \A p \in DOMAIN procs :
    (Ended(p) /\ SawDirectoryError(p)) => Rejected(p)

(* C12: authenticateUser settles with a result object whenever the         *)
(* directory reports an error carrying lde_message, whatever result comes  *)
(* with it: it resolves with the result annotated with detail and message. *)
(* It rejects, with the error, only for an error without lde_message, and  *)
(* resolves with the directory's result unchanged when there is no error.  *)
Answered(p) ==
  /\ Len(procs[p].log) = 1
  /\ procs[p].log[1].err # Unanswered
  /\ procs[p].io.phase = "none"

C12_AuthenticationErrorFolded ==
  \A p \in DOMAIN procs :
    (procs[p].op = "authenticateUser" /\ Answered(p)) =>
      LET err == procs[p].log[1].err
          res == procs[p].log[1].res
          out == procs[p].value
      IN  IF HasLdeMessage(err)
          THEN /\ Resolved(p)
               /\ out.type = "object"
               /\ "detail" \in DOMAIN out.fields
               /\ out.fields.detail = err.lde_message
               /\ "message" \in DOMAIN out.fields
               /\ out.fields.message = StackHead(err)
          ELSE IF err # NoError
          THEN Rejected(p) /\ out = err
          ELSE Resolved(p) /\ out = res

(* C13: for a user whose DN is CN=<leaf>,OU=<o1>,...,OU=<on>,DC=..,DC=..   *)
(* (n >= 0, values free of commas) getUserLocation resolves with the OU    *)
(* names from the root to the leaf, on,...,o1, joined by '/', without the  *)
(* leaf CN, without OU labels and without any part of the base DN.         *)
OUsOf(dn) == SelectSeq(dn, LAMBDA rdn : rdn.t = "OU")

ExpectedLocation(dn) ==
  JoinSlash(Reverse([i \in 1..Len(OUsOf(dn)) |-> ValueTokens(OUsOf(dn)[i].v)]))

C13_LocationIsOUPath ==
  \A p \in DOMAIN procs :
    (procs[p].op = "getUserLocation" /\ Resolved(p)) =>
      \E e \in dir :
        procs[p].value = [location |-> ExpectedLocation(e.dn)]

(* C14: normalizeLocation maps an empty, blank or undefined location to    *)
(* "CN=Users,", appends exactly one ',' to a non-blank location that does  *)
(* not end with ',', and returns a location that ends with ',' unchanged;  *)
(* its result always ends with ',', and applied to its own result it       *)
(* returns that result.                                                    *)
UsersContainer == <<[t |-> "CN", v |-> "Users"], Comma>>

EndsWithComma(l) == Len(l) > 0 /\ l[Len(l)] = Comma

Blank(l) == \A i \in 1..Len(l) : l[i] = Space

C14_NormalizeLocation ==
  \A p \in DOMAIN procs :
    procs[p].op = "normalizeLocation" =>
      LET x == procs[p].arg.userLocation
          y == procs[p].value.location
      IN  /\ Blank(x) => y = UsersContainer
          /\ (~Blank(x) /\ ~EndsWithComma(x)) => y = x \o <<Comma>>
          /\ (~Blank(x) /\ EndsWithComma(x)) => y = x
          /\ EndsWithComma(y)
          /\ \A q \in DOMAIN procs :
               (procs[q].op = "normalizeLocation" /\ procs[q].arg.userLocation = y)
                 => procs[q].value.location = y

C14_Witness ==
  \E p, q \in DOMAIN procs :
    /\ procs[p].op = "normalizeLocation"
    /\ procs[p].arg.userLocation = <<[t |-> "OU", v |-> "Sales"], Space>>
    /\ procs[p].value.location = <<[t |-> "OU", v |-> "Sales"], Space, Comma>>
    /\ procs[q].op = "normalizeLocation"
    /\ procs[q].arg.userLocation = procs[p].value.location
    /\ procs[q].value.location = procs[p].value.location

(* C15: whatever the random values, createPassword returns 9 characters:   *)
(* 1 of the specials pool, 3 of the digits pool, 2 uppercase letters and   *)
(* 3 lowercase letters of the letters pool, in that order; no position is  *)
(* undefined, every index lying inside its pool.                           *)
CharsOf(pool) == {pool[i] : i \in 1..Len(pool)}

C15_PasswordLayout ==
  \A p \in DOMAIN procs :
    procs[p].op = "createPassword" =>
      LET w == procs[p].value.password
      IN  /\ Len(w) = 9
          /\ w[1] \in CharsOf(Specials)
          /\ \A i \in 2..4 : w[i] \in CharsOf(Digits)
          /\ \A i \in 5..6 : w[i] \in CharsOf(UpperLetters)
          /\ \A i \in 7..9 : w[i] \in CharsOf(LowerLetters)

C15_Witness ==
  \E p \in DOMAIN procs :
    /\ procs[p].op = "createPassword"
    /\ procs[p].value.password = <<"!", "9", "0", "1", "M", "Q", "w", "m", "q">>

(* C16: after a successful removeUser(U) the cache holds no user record    *)
(* for U: the next findUser(U) does not return the removed user's record   *)
(* but the empty record, as the directory has it.                          *)
C16_RemovedUserNotCached ==
  \A p, q \in DOMAIN procs :
    ( /\ q = p + 1
      /\ procs[p].op = "removeUser"
      /\ Resolved(p)
      /\ procs[q].after = 1..p
      /\ procs[q].op = "findUser"
      /\ procs[q].arg.userName = procs[p].arg.userName
      /\ Resolved(q) )
    => /\ procs[q].value = EmptyRecord
       /\ ~(CacheHas(cache, UserOf(p)) /\ ~NoKeys(cache[UserOf(p)]))

(* C17: a cached not-found sentinel does not outlive the creation of the   *)
(* user: when findUser(U) returned the empty record and an addUser then    *)
(* created the user U in the directory, the next findUser(U) returns the   *)
(* created user's record and not the empty record.                         *)
CreatedUser(q) ==
  /\ procs[q].op = "addUser"
  /\ Ended(q)
  /\ Len(Writes(q)) >= 1
  /\ Writes(q)[1].err = NoError

InterpretedKeys == {"commonName", "passwordExpires", "enabled"}

C18_InterpretedKeysNotWritten ==
  \A p \in DOMAIN procs :
    procs[p].op = "updateUser" =>
      \A i \in 1..Len(procs[p].log) :
        LET e == procs[p].log[i]
        IN  e.req.kind = "replace" =>
              /\ e.req.key \notin InterpretedKeys
              /\ \/ /\ IsOpWrite(e)
                    /\ HasKey(procs[p].arg.opts, e.req.key)
                 \/ /\ ~IsOpWrite(e)
                    /\ e.req.key = "userAccountControl"
                    /\ e.req.value \in {NEVER_EXPIRES, UAC_ENABLED, DISABLED}

(* C19: when the directory's find fails during findUser(U), findUser       *)
(* rejects with exactly the directory's error, sends no second find, and   *)
(* leaves the cache as it was: no entry, not even the not-found sentinel,  *)
(* is added for U.                                                         *)
FindFailed(p) ==
  /\ AtCallback(p, "findUser", "found")
  /\ procs[p].op = "findUser"
  /\ Failed(procs[p].io)

C19_FailedFindPropagates ==
  [][/\ \A p \in DOMAIN procs :
          (FindFailed(p) /\ procs'[p] # procs[p]) =>
            /\ procs'[p].outcome = "rejected"
            /\ procs'[p].value = procs[p].io.err
            /\ procs'[p].stack = <<>>
            /\ procs'[p].log = procs[p].log
            /\ cache' = cache
     /\ \A p \in DOMAIN procs' :
          procs'[p].op = "findUser" => Len(procs'[p].log) <= 1]_vars

C19_Witness ==
  \E p, q \in DOMAIN procs :
    /\ procs[p].op = "findUser"
    /\ Rejected(p)
    /\ procs[p].value = TransportError
    /\ Len(procs[p].log) = 1
    /\ ~CacheHas(cache, UserOf(p))
    /\ procs[q].op = "findUser"
    /\ Resolved(q)
    /\ CacheHas(cache, UserOf(q))

=============================================================================
